---- MODULE Spec2Model ----
(***************************************************************************)
(* A model of the concurrency primitives of saturn_engine:                 *)
(*   - TasksGroup (utils/asyncutils.py) and TaskManager                    *)
(*     (worker/task_manager.py): waiting on a changing set of tasks;       *)
(*   - SharedLock / SharedLockReservation (utils/asyncutils.py) under the  *)
(*     callers of RabbitMQTopic.publish (worker/topics/rabbitmq.py);       *)
(*   - DelayedThrottle (utils/asyncutils.py);                              *)
(*   - CachedProperty (utils/asyncutils.py) under concurrent readers;      *)
(*   - Broker (worker/broker.py): run, stop, close and its loops;          *)
(*   - the consume loop RabbitMQTopic.run (worker/topics/rabbitmq.py).     *)
(* Every action is one stretch of code between two suspension points of    *)
(* the asyncio event loop: the loop runs one callback at a time, so such a *)
(* stretch is atomic, and the interleavings are those of the stretches.    *)
(***************************************************************************)
EXTENDS Integers, Naturals, Sequences, FiniteSets, TLC

\* ------------------------------------------------------------------ bounds
MaxTasks == 2     \* tasks that may be created and added to the group
MaxWaiters == 2   \* activities that may call TasksGroup.wait()

MaxCallers == 3        \* concurrent callers of publish()
MaxReservations == 2   \* largest max_reservations a SharedLock is built with
MaxAttempt == 1        \* largest value of publish()'s attempt counter

MaxClients == 2        \* concurrent users of a DelayedThrottle
MaxCalls == 3          \* calls of the throttle
MaxArg == 2            \* the arguments of a call are 1..MaxArg
DelayTicks == 2        \* the delay, in ticks of the clock

MaxReaders == 3        \* concurrent readers of a cached property
MaxRuns == 3           \* runs of the getter of a cached property

MaxMsgs == 2           \* messages the scheduler yields to the dispatch loop
MaxItems == 1          \* length of a non-empty add or drop list of a sync

MaxBurst == 3          \* the count of invocations of one burst stops growing here
MaxDeliveries == 3     \* messages the queue iterator delivers to the consume loop
MaxFailures == 6       \* largest value of the attempt counter of the consume loop

Tasks == 1..MaxTasks
Items == 1..MaxItems
Readers == 1..MaxReaders
Runs == 1..MaxRuns
Clients == 1..MaxClients
Args == 1..MaxArg
\* In the queue of delayed_lock, 0 stands for the task running _delay_call.
DelayedTask == 0
Callers == 1..MaxCallers
Waiters == 1..MaxWaiters
\* In a result of wait(), 0 stands for a sentinel task (updated_task).
Sentinel == 0

VARIABLES
    \* ---- asyncio tasks handed to the group
    taskState,   \* t -> "none" | "pending" | "cancelling" | "ok" | "exc" | "cancelled"
    \* ---- TasksGroup
    tasks,       \* self.tasks
    updated,     \* self.updated (asyncio.Event flag)
    updState,    \* state of self.updated_task: "unstarted" | "waiting" | "woken" | "done"
    \* ---- callers of TasksGroup.wait()
    wpc,         \* w -> "idle" | "waiting"
    wsnap,       \* w -> the tasks handed to asyncio.wait
    wsent,       \* w -> the sentinel handed to asyncio.wait: "cur" (it is still
                 \*      self.updated_task) | "old" (replaced since) | "none"
    \* ---- what the step just taken returned to its caller
    ret,         \* NoRet, or the return of a wait(): see WaitRet
    \* ---- TaskManager.run
    runState,    \* "new" | "running" | "raised" | "cancelled"
    log,         \* set of <<task, level>> written by on_done
    \* ---- SharedLock
    maxRes,      \* max_reservations given to SharedLock.__init__
    lockBuilt,   \* SharedLock.__init__: "no" (not called) | "yes" | "TypeError"
    semValue,    \* free slots of self._reservations_lock
    mlocked,     \* self._lock.locked()
    mwaiters,    \* callers queued on self._lock, first come first
    locker,      \* self._locker: the caller whose reservation it is (0: None)
    \* ---- callers of RabbitMQTopic.publish
    cpc,         \* c -> "idle" | "slot" | "mutex" | "body" | "acquire" | "sleep"
    cwait,       \* c -> the wait argument
    chas,        \* c -> has_locked
    ckind,       \* c -> which handler retries: "nack" | "error" | "none"
    attempt,     \* c -> the attempt counter
    ev,          \* what the step just taken did on the lock: see Ev
    \* ---- DelayedThrottle
    thrTask,     \* self.delayed_task: "none" (None) | "sleeping" | "lockwait" |
                 \*   "running" (in func) | "cancelling" | "cancelled" |
                 \*   "failed" (done with the exception of func)
    thrHeld,     \* the task running _delay_call holds delayed_lock
    thrArgs,     \* self.delayed_args (0: the initial ())
    thrLocked,   \* self.delayed_lock.locked()
    thrQueue,    \* who is queued on delayed_lock, first come first
    timer,       \* ticks left of asyncio.sleep(self.delay)
    \* ---- users of the throttle
    tpc,         \* c -> "idle" | "call_wait" | "flush_wait" | "flush_cancel" |
                 \*      "flush_func" | "cancel_wait"
    targ,        \* c -> the arguments of its suspended call
    calls,       \* calls made so far
    \* ---- history
    lastArgs,    \* arguments of the latest call made
    burstInv,    \* invocations of func since a delayed invocation was last scheduled
    burstPure,   \* it was scheduled on an idle throttle and since then no
                 \*   flush() or cancel() acted and nobody waited for the lock
    burstFirst,  \* arguments of the call that scheduled it
    tev,         \* what the step just taken did on the throttle: see TEv
    \* ---- CachedProperty, for one instance
    slotKind,    \* instance.__dict__.get(name): "empty" (None) | "task" | "future"
    slotRun,     \* the run of the getter the task is, or the future's result is of
    initState,   \* k -> "none" | "running" | "cancelling" | "ok" | "exc" | "cancelled"
    runs,        \* runs of the getter started so far
    \* ---- readers of the property: tasks running _get_attribute
    rpc,         \* r -> "idle" | "creator" (await task) | "attached" (await value)
    rrun,        \* r -> the run it awaits
    rmust,       \* r -> cancelled after the task it awaits was done
    succeeded,   \* the first run that succeeded while it was in the slot (0: none)
    mev,         \* what the step just taken did for a reader: see MEv
    \* ---- Broker
    isRunning,   \* self.is_running
    gather,      \* self.running_task: "none" (None) | "pending" | "result" |
                 \*   "exc" (an exception is set) | "cancelled" (CancelledError)
    loop,        \* l -> "new" | "running" | "cancelling" | "ended" | "failed" |
                 \*   "cancelled": the three coroutines given to gather
    brun,        \* run(): "new" | "waiting" | "closing" | "returned" | "raised"
    closeLog,    \* the close() calls made by Broker.close, in order
    \* ---- run_queue_manager
    dpc,         \* "pull" (awaits the scheduler) | "submit" (awaits submit)
    produced,    \* messages the scheduler yielded so far
    submitted,   \* the executor.submit calls made, in order
    submitDone,  \* how many of them returned
    schedEnded,  \* the sequence of scheduler.run() ended
    \* ---- run_worker_manager
    spc,         \* "sync" (awaits work_manager.sync()) | "resource" (awaits
                 \*   resources_manager.add)
    plan,        \* the calls the diff in hand asks for, in the order of the code
    applied,     \* the calls made for the diff in hand, in order
    bev,         \* what the step just taken did on the broker: see BEv
    \* ---- TasksGroup.close
    clpc,        \* "idle" | "sentinel" (await self.updated_task) | "grace" (the
                 \*   first asyncio.wait) | "collect" (the second) | "returned" |
                 \*   "raised"
    cltimeout,   \* a timeout was given
    clsnap,      \* the tasks given to the asyncio.wait in progress
    cev,         \* what close() returned in the step just taken: see CEv
    \* ---- RabbitMQTopic.run, the consume loop
    kpc,         \* "new" | "connecting" (await self.queue) | "consuming" (awaits
                 \*   the next message) | "yielded" | "backoff" | "ended" (the
                 \*   generator returned) | "closed" (closed by its consumer) |
                 \*   "cancelled"
    kattempt,    \* attempt
    kdelay,      \* seconds of the last backoff_sleep
    delivered,   \* messages yielded so far
    kstreak,     \* history: failures since the last yielded message
    kcached      \* the cached property queue holds a queue (and channel a channel)

groupVars == <<tasks, updated, updState>>
waitVars == <<wpc, wsnap, wsent>>
mgrVars == <<runState, log>>
lockVars == <<maxRes, lockBuilt, semValue, mlocked, mwaiters, locker>>
callVars == <<cpc, cwait, chas, ckind, attempt, ev>>
thrVars == <<thrTask, thrHeld, thrArgs, thrLocked, thrQueue, timer>>
userVars == <<tpc, targ, calls, lastArgs, burstInv, burstPure, burstFirst, tev>>
memoVars == <<slotKind, slotRun, initState, runs>>
readVars == <<rpc, rrun, rmust, succeeded, mev>>
tasksAll == <<taskState, groupVars, waitVars, ret, mgrVars>>
lockAll == <<lockVars, callVars>>
thrAll == <<thrVars, userVars>>
memoAll == <<memoVars, readVars>>
brokerVars == <<isRunning, gather, loop, brun, closeLog>>
dispatchVars == <<dpc, produced, submitted, submitDone, schedEnded>>
syncVars == <<spc, plan, applied>>
brokerAll == <<brokerVars, dispatchVars, syncVars, bev>>
closeAll == <<clpc, cltimeout, clsnap, cev>>
consumeAll == <<kpc, kattempt, kdelay, delivered, kstreak, kcached>>
vars == <<tasksAll, lockAll, thrAll, memoAll, brokerAll, closeAll, consumeAll>>
\* What the steps on tasks, on the lock and on the throttle leave alone.
outsideTasks == <<lockAll, thrAll, memoAll, brokerAll, closeAll, consumeAll>>
outsideLock == <<tasksAll, thrAll, memoAll, brokerAll, closeAll, consumeAll>>
outsideThrottle == <<tasksAll, lockAll, memoAll, brokerAll, closeAll, consumeAll>>
outsideMemo == <<tasksAll, lockAll, thrAll, brokerAll, closeAll, consumeAll>>
outsideBroker == <<tasksAll, lockAll, thrAll, memoAll, closeAll, consumeAll>>
outsideConsume == <<tasksAll, lockAll, thrAll, memoAll, brokerAll, closeAll>>
outsideClose == <<waitVars, ret, mgrVars, lockAll, thrAll, memoAll, brokerAll, consumeAll>>

\* No call returned in the step just taken.
NoRet == [w |-> 0, result |-> {}, snap |-> {}, tracked |-> {}, fired |-> FALSE]
\* wait() returned `result` to caller w; snap is self.tasks when it was called,
\* tracked is self.tasks when asyncio.wait resumed, fired tells whether a
\* sentinel was among the futures asyncio.wait found done.
WaitRet(w, result, snap, tracked, fired) ==
    [w |-> w, result |-> result, snap |-> snap, tracked |-> tracked, fired |-> fired]

\* ------------------------------------------------------------ asyncio.Task
\* Task.done()
IsDone(t) == taskState[t] \in {"ok", "exc", "cancelled"}

\* Task.cancel(): a finished task is left alone; a running one gets
\* CancelledError thrown in at its next step.
CancelTask(ts, t) ==
    IF ts[t] = "pending" THEN [ts EXCEPT ![t] = "cancelling"] ELSE ts

\* ------------------------------------------------------- TasksGroup helpers
\* asyncio.Event.set() as seen by the sentinel: the flag is raised and, if it
\* was down, the future the sentinel waits on is resolved.
NotifyFlag == TRUE
NotifySentinel ==
    IF ~updated /\ updState = "waiting" THEN "woken" ELSE updState

\* A sentinel that was replaced has completed (wait() replaces it only when
\* it finds it done); the current one is done when its task has finished.
SentinelDone(w) ==
    wsent[w] = "old" \/ (wsent[w] = "cur" /\ updState = "done")

\* What asyncio.wait(..., FIRST_COMPLETED) returns as done when it resumes.
RawDone(w) ==
    {t \in wsnap[w] : IsDone(t)}
        \cup (IF SentinelDone(w) THEN {Sentinel} ELSE {})

\* `self.updated_task in done`
CurrentSentinelIn(w) == wsent[w] = "cur" /\ updState = "done"

\* The set wait() returns: done, minus the sentinel if it is the current one.
WaitResult(w) ==
    IF CurrentSentinelIn(w) THEN RawDone(w) \ {Sentinel} ELSE RawDone(w)

\* (mutant) asyncio.wait given a timeout: it may resume with nothing done.
CanResumeTimeout(w) == TRUE

\* asyncio.wait resumes its caller once a future of the snapshot is done.
CanResume(w) == RawDone(w) # {}

\* ------------------------------------------------------- SharedLock helpers
\* FakeSemaphore derives from contextlib.AbstractAsyncContextManager, whose
\* __aexit__ is abstract, and defines locked() only: a class with an abstract
\* method left cannot be instantiated (TypeError).
AbstractAsyncContextManagerAbstract == {"__aexit__"}
FakeSemaphoreMethods == {"locked"}
FakeSemaphoreInstantiable ==
    AbstractAsyncContextManagerAbstract \ FakeSemaphoreMethods = {}

\* SharedLock.__init__(max_reservations=n): a Semaphore of n slots, or a
\* FakeSemaphore when n is 0.
SharedLockInit(n) ==
    IF n # 0 THEN [built |-> "yes", sem |-> n]
    ELSE [built |-> IF FakeSemaphoreInstantiable THEN "yes" ELSE "TypeError",
          sem |-> 0]

\* The lock as one value: free slots, the mutex and the locker.
LockState == [sem |-> semValue, locked |-> mlocked, waiters |-> mwaiters,
              locker |-> locker]

\* asyncio.Lock.acquire() returns without suspending when the lock is free
\* and nobody is queued on it.
MutexFree(L) == ~L.locked /\ L.waiters = <<>>
MutexTake(L) == [L EXCEPT !.locked = TRUE]
\* asyncio.Lock.release(); the first queued caller is thereby woken.
MutexRelease(L) == [L EXCEPT !.locked = FALSE]
MutexEnqueue(L, c) == [L EXCEPT !.waiters = Append(@, c)]
MutexDequeue(L, c) ==
    [L EXCEPT !.waiters = SelectSeq(@, LAMBDA x : x # c)]
\* The queued caller release() has woken and that has not resumed yet.
Granted(c) == ~mlocked /\ mwaiters # <<>> /\ Head(mwaiters) = c

MintKeepsMutex(L) == MutexTake(L)

\* reserve(): `async with self._lock: reservation = SharedLockReservation()`
\* once the mutex is obtained: it is held for the minting only.
Mint(L) == MutexRelease(MutexTake(L))

\* (mutant) _release that clears the locker and forgets self._lock.release().
LockReleaseKeepsMutex(L, c) ==
    IF L.locker # c THEN L ELSE [L EXCEPT !.locker = 0]

\* SharedLock._release(reservation)
LockRelease(L, c) ==
    IF L.locker # c THEN L ELSE MutexRelease([L EXCEPT !.locker = 0])

\* (mutant) _acquire without the check of the locker's identity.
HoldsLockNever(L, c) == FALSE

\* `self._locker is reservation`
HoldsLock(L, c) == L.locker = c

\* SharedLock._acquire(reservation), once self._lock is obtained.
LockTake(L, c) == [MutexTake(L) EXCEPT !.locker = c]

\* Semaphore.acquire() / release()
SlotFree(L) == L.sem > 0
SlotTake(L) == [L EXCEPT !.sem = @ - 1]
SlotRelease(L) == [L EXCEPT !.sem = @ + 1]

\* (mutant) the slot is freed, the reservation is not released.
ScopeExitKeepsLock(L, c) == SlotRelease(L)

\* Leaving the scope of reserve(): `finally: reservation.release()`, then the
\* slot is given back.
ScopeExit(L, c) == SlotRelease(LockRelease(L, c))

\* SharedLock.locked() and locked_reservations(); Semaphore.locked() is true
\* when no slot is free.
Locked(L) == L.locked
LockedReservations(L) == Locked(L) \/ ~SlotFree(L)

SetLock(L) ==
    /\ semValue' = L.sem
    /\ mlocked' = L.locked
    /\ mwaiters' = L.waiters
    /\ locker' = L.locker
    /\ UNCHANGED <<maxRes, lockBuilt>>

\* What a step did on the lock, for caller c, with the lock as it was before.
NoEv == [op |-> "none", c |-> 0, before |-> <<>>]
Ev(op, c) == [op |-> op, c |-> c, before |-> <<LockState>>]

\* -------------------------------------------------- DelayedThrottle helpers
\* What a step did on the throttle: op is "none", "call" (a call recorded its
\* arguments), "invoke" (func was called, by "task" or "flush", with args),
\* "flush_noop" (flush() found delayed_task None), "flush_return".
NoTEv == [op |-> "none", by |-> "none", args |-> 0]
TEv(op, by, args) == [op |-> op, by |-> by, args |-> args]

\* (mutant) delayed_lock never makes anyone wait.
ThrLockFreeAlways == TRUE

\* delayed_lock can be taken without suspending.
ThrLockFree == ~thrLocked /\ thrQueue = <<>>
\* The queued party that release() has woken.
ThrGranted(x) == ~thrLocked /\ thrQueue # <<>> /\ Head(thrQueue) = x
ThrDequeue(x) == SelectSeq(thrQueue, LAMBDA y : y # x)

\* A delayed invocation is scheduled and has not started func.
Scheduled == thrTask \in {"sleeping", "lockwait"}

\* (mutant) the arguments are recorded only by the call that schedules.
RecordedArgsFirstOnly(a) == IF thrTask = "none" THEN a ELSE thrArgs

\* __call__: self.delayed_args = args
RecordedArgs(a) == a

\* --------------------------------------------------- CachedProperty helpers
\* What a step did for reader r: op is "none", "suspend", "return" (of value),
\* "raise" (of the getter's exception) or "cancelled" (CancelledError raised);
\* started tells that the step began with the read, role is "creator" or
\* "attached", run is the run of the getter the reader got its outcome from.
NoMEv == [op |-> "none", r |-> 0, role |-> "none", run |-> 0, value |-> 0,
          started |-> FALSE]
MEv(op, r, role, run, value, started) ==
    [op |-> op, r |-> r, role |-> role, run |-> run, value |-> value,
     started |-> started]

\* The result of run k of the getter: runs return different objects.
Result(k) == k
\* The run of the getter is over.
InitDone(k) == initState[k] \in {"ok", "exc", "cancelled"}
InFlight == {k \in Runs : initState[k] \in {"running", "cancelling"}}

\* (mutant) every read finds the slot empty.
SlotEmptyAlways == TRUE

\* _get_attribute: value is None
SlotEmpty == slotKind = "empty"

\* (mutant) the creator leaves the failed task in the slot.
SlotAfterFailureKept == slotKind

\* _get_attribute: del instance.__dict__[self._name]
SlotAfterFailure == "empty"

\* What awaiting the finished run k gives: the op and the value of MEv.
OutcomeOp(k) ==
    IF initState[k] = "ok" THEN "return"
    ELSE IF initState[k] = "exc" THEN "raise" ELSE "cancelled"
OutcomeValue(k) == IF initState[k] = "ok" THEN Result(k) ELSE 0

\* ----------------------------------------------------------- Broker helpers
\* run_queue_manager, run_worker_manager and task_manager.run.
Loops == {"dispatch", "sync", "supervisor"}
LoopOver(st) == st \in {"ended", "failed", "cancelled"}

\* What a step did on the broker: op is "none" or "stop"; had tells whether
\* running_task was set when stop() was called.
NoBEv == [op |-> "none", had |-> FALSE]
BEv(op, had) == [op |-> op, had |-> had]

GatherAfterFirstDone(lp, o) ==
    IF gather # "pending" THEN gather
    ELSE IF o = "failed" THEN "exc"
    ELSE IF o = "cancelled" THEN "cancelled"
    ELSE "result"

\* asyncio.gather without return_exceptions, when the child l is over with
\* outcome o and lp gives the state of the children: the first exception or
\* cancellation of a child is set on the gathering future at once, a result
\* only when every child has returned.
GatherAfter(lp, o) ==
    IF gather # "pending" THEN gather
    ELSE IF o = "failed" THEN "exc"
    ELSE IF o = "cancelled" THEN "cancelled"
    ELSE IF \A l \in Loops : lp[l] = "ended" THEN "result"
    ELSE "pending"

\* Broker.close: the components closed, in the order of the code.
CloseOrder == <<"scheduler", "task_manager", "services", "executor">>

\* (mutant) run_worker_manager with the drops before the adds.
SyncOrderDropsFirst ==
    <<<<"queues", "drop">>, <<"tasks", "drop">>, <<"resources", "drop">>,
      <<"queues", "add">>, <<"tasks", "add">>, <<"resources", "add">>>>

\* run_worker_manager: the six for loops, in the order of the code.
SyncOrder ==
    <<<<"queues", "add">>, <<"tasks", "add">>, <<"resources", "add">>,
      <<"queues", "drop">>, <<"tasks", "drop">>, <<"resources", "drop">>>>

\* A list of a diff: empty, or the items in order.
ItemList == [i \in Items |-> i]
DiffLists == {<<>>, ItemList}
\* The diffs work_manager.sync() may return: a list for each of the six.
Diffs == [1..6 -> DiffLists]

\* Where the list of a kind and an op is in a diff.
DiffIndex(ko) ==
    (IF ko[1] = "queues" THEN 1 ELSE IF ko[1] = "tasks" THEN 2 ELSE 3)
    + (IF ko[2] = "add" THEN 0 ELSE 3)

\* The calls a for loop makes for its list: <<kind, op, item>>.
CallsOf(ko, list) == [i \in 1..Len(list) |-> <<ko[1], ko[2], list[i]>>]
\* The calls of the loops n.. of the code for diff d, where d[n] is the list
\* that the n-th loop of SyncOrder iterates.
RECURSIVE PlanFrom(_, _)
PlanFrom(d, n) ==
    IF n > 6 THEN <<>>
    ELSE CallsOf(SyncOrder[n], d[DiffIndex(SyncOrder[n])]) \o PlanFrom(d, n + 1)

\* The only call of the loops that suspends: await resources_manager.add.
Suspends(call) == call[1] = "resources" /\ call[2] = "add"
\* The number of calls of pl made from call i on up to the next suspension.
RECURSIVE Stretch(_, _)
Stretch(pl, i) ==
    IF i > Len(pl) THEN 0
    ELSE IF Suspends(pl[i]) THEN 1
    ELSE 1 + Stretch(pl, i + 1)

\* ------------------------------------------------- TasksGroup.close helpers
\* close() returned: snap is the set its last asyncio.wait was given, done and
\* pending are what that wait returned, cleared is self.tasks as it was when
\* self.tasks.clear() ran, timeout tells whether a timeout was given.
NoCEv == [op |-> "none", snap |-> {}, done |-> {}, pending |-> {},
          cleared |-> {}, timeout |-> FALSE]
CEv(snap, done, pending, cleared, timeout) ==
    [op |-> "close_return", snap |-> snap, done |-> done, pending |-> pending,
     cleared |-> cleared, timeout |-> timeout]

\* (mutant) close() cancels nothing.
CancelRemainingNone(ts, S) == ts

\* close(): for task in self.tasks: if not task.done(): task.cancel()
CancelRemaining(ts, S) ==
    [t \in Tasks |-> IF t \in S /\ ts[t] = "pending" THEN "cancelling" ELSE ts[t]]

\* asyncio.wait(S, timeout=...) can return: every task of S is done, or the
\* timeout, if there is one, is over.
WaitOver(S, timed) == timed \/ \A t \in S : IsDone(t)

\* ---------------------------------------------- RabbitMQTopic.run helpers
\* The delays of the reconnections, in seconds.
FAILURE_RETRY_BACKOFFS == <<0, 1, 5, 15, 30>>

BackoffDelayFirst(a) == FAILURE_RETRY_BACKOFFS[1]

\* backoff_sleep(attempt): the delay it sleeps.
BackoffDelay(a) ==
    IF a < Len(FAILURE_RETRY_BACKOFFS)
    THEN FAILURE_RETRY_BACKOFFS[a + 1]
    ELSE FAILURE_RETRY_BACKOFFS[Len(FAILURE_RETRY_BACKOFFS)]

\* ------------------------------------------------------------------- Init
Init ==
    /\ taskState = [t \in Tasks |-> "none"]
    /\ tasks = {}
    /\ updated = FALSE
    /\ updState = "unstarted"
    /\ wpc = [w \in Waiters |-> "idle"]
    /\ wsnap = [w \in Waiters |-> {}]
    /\ wsent = [w \in Waiters |-> "none"]
    /\ ret = NoRet
    /\ runState = "new"
    /\ log = {}
    /\ maxRes = 0
    /\ lockBuilt = "no"
    /\ semValue = 0
    /\ mlocked = FALSE
    /\ mwaiters = <<>>
    /\ locker = 0
    /\ cpc = [c \in Callers |-> "idle"]
    /\ cwait = [c \in Callers |-> FALSE]
    /\ chas = [c \in Callers |-> FALSE]
    /\ ckind = [c \in Callers |-> "none"]
    /\ attempt = [c \in Callers |-> 0]
    /\ ev = NoEv
    /\ thrTask = "none"
    /\ thrHeld = FALSE
    /\ thrArgs = 0
    /\ thrLocked = FALSE
    /\ thrQueue = <<>>
    /\ timer = 0
    /\ tpc = [c \in Clients |-> "idle"]
    /\ targ = [c \in Clients |-> 0]
    /\ calls = 0
    /\ lastArgs = 0
    /\ burstInv = 0
    /\ burstPure = FALSE
    /\ burstFirst = 0
    /\ tev = NoTEv
    /\ slotKind = "empty"
    /\ slotRun = 0
    /\ initState = [k \in Runs |-> "none"]
    /\ runs = 0
    /\ rpc = [r \in Readers |-> "idle"]
    /\ rrun = [r \in Readers |-> 0]
    /\ rmust = [r \in Readers |-> FALSE]
    /\ succeeded = 0
    /\ mev = NoMEv
    /\ isRunning = FALSE
    /\ gather = "none"
    /\ loop = [l \in Loops |-> "new"]
    /\ brun = "new"
    /\ closeLog = <<>>
    /\ dpc = "pull"
    /\ produced = 0
    /\ submitted = <<>>
    /\ submitDone = 0
    /\ schedEnded = FALSE
    /\ spc = "sync"
    /\ plan = <<>>
    /\ applied = <<>>
    /\ bev = NoBEv
    /\ clpc = "idle"
    /\ cltimeout = FALSE
    /\ clsnap = {}
    /\ cev = NoCEv
    /\ kpc = "new"
    /\ kattempt = 0
    /\ kdelay = 0
    /\ delivered = 0
    /\ kstreak = 0
    /\ kcached = FALSE

\* ------------------------------------------------------- tasks' own steps
\* A running task finishes, with a result ("ok") or an exception ("exc").
TaskFinish(t, o) ==
    /\ taskState[t] = "pending"
    /\ taskState' = [taskState EXCEPT ![t] = o]
    /\ ret' = NoRet
    /\ UNCHANGED outsideTasks
    /\ UNCHANGED <<groupVars, waitVars, mgrVars>>

\* Somebody other than the group cancels a running task.
TaskCancel(t) ==
    /\ taskState[t] = "pending"
    /\ taskState' = CancelTask(taskState, t)
    /\ ret' = NoRet
    /\ UNCHANGED outsideTasks
    /\ UNCHANGED <<groupVars, waitVars, mgrVars>>

\* The cancelled task runs its next step and ends cancelled.
TaskCancelled(t) ==
    /\ taskState[t] = "cancelling"
    /\ taskState' = [taskState EXCEPT ![t] = "cancelled"]
    /\ ret' = NoRet
    /\ UNCHANGED outsideTasks
    /\ UNCHANGED <<groupVars, waitVars, mgrVars>>

\* ------------------------------------------------------- the sentinel task
\* First step of updated.wait(): returns at once if the flag is up.
SentinelStart ==
    /\ updState = "unstarted"
    /\ updState' = IF updated THEN "done" ELSE "waiting"
    /\ ret' = NoRet
    /\ UNCHANGED outsideTasks
    /\ UNCHANGED <<taskState, tasks, updated, waitVars, mgrVars>>

\* The sentinel resumes after set() resolved its future; it returns True
\* whatever the flag is by then.
SentinelWake ==
    /\ updState = "woken"
    /\ updState' = "done"
    /\ ret' = NoRet
    /\ UNCHANGED outsideTasks
    /\ UNCHANGED <<taskState, tasks, updated, waitVars, mgrVars>>

\* --------------------------------------------------------------- TasksGroup
\* Tasks are numbered in the order they are created, and the idle callers of
\* wait() are alike: the least of them stands for any of them.
NextTask(t) == taskState[t] = "none" /\ \A u \in Tasks : u < t => taskState[u] # "none"
NextWaiter(w) == wpc[w] = "idle" /\ \A v \in Waiters : v < w => wpc[v] # "idle"

\* add(task), with a task created for it.
Add(t) ==
    /\ NextTask(t)
    /\ taskState' = [taskState EXCEPT ![t] = "pending"]
    /\ tasks' = tasks \cup {t}
    /\ updated' = NotifyFlag
    /\ updState' = NotifySentinel
    /\ ret' = NoRet
    /\ UNCHANGED outsideTasks
    /\ UNCHANGED <<wpc, wsnap, wsent, mgrVars>>

\* remove(task)
Remove(t) ==
    /\ taskState[t] # "none"
    /\ tasks' = tasks \ {t}
    /\ updated' = NotifyFlag
    /\ updState' = NotifySentinel
    /\ ret' = NoRet
    /\ UNCHANGED outsideTasks
    /\ UNCHANGED <<taskState, wpc, wsnap, wsent, mgrVars>>

\* wait(), up to the suspension in asyncio.wait.
WaitCall(w) ==
    /\ NextWaiter(w)
    /\ updated' = FALSE
    /\ wpc' = [wpc EXCEPT ![w] = "waiting"]
    /\ wsnap' = [wsnap EXCEPT ![w] = tasks]
    /\ wsent' = [wsent EXCEPT ![w] = "cur"]
    /\ ret' = NoRet
    /\ UNCHANGED outsideTasks
    /\ UNCHANGED <<taskState, tasks, updState, mgrVars>>

\* wait(), from the resumption of asyncio.wait to the return.
WaitReturn(w) ==
    /\ wpc[w] = "waiting"
    /\ CanResume(w)
    /\ updState' = IF CurrentSentinelIn(w) THEN "unstarted" ELSE updState
    /\ tasks' = tasks \ WaitResult(w)
    /\ wpc' = [wpc EXCEPT ![w] = "idle"]
    /\ wsnap' = [wsnap EXCEPT ![w] = {}]
    /\ wsent' = [v \in Waiters |->
                    IF v = w THEN "none"
                    ELSE IF CurrentSentinelIn(w) /\ wsent[v] = "cur" THEN "old"
                    ELSE wsent[v]]
    /\ ret' = WaitRet(w, WaitResult(w), wsnap[w], tasks, Sentinel \in RawDone(w))
    /\ UNCHANGED outsideTasks
    /\ UNCHANGED <<taskState, updated, mgrVars>>

\* wait() never looks at how a task ended, so here the tasks end one way;
\* the ways they can end are told apart where TaskManager.on_done reads them.
GroupNext ==
    \/ \E t \in Tasks : TaskFinish(t, "ok")
    \/ SentinelStart
    \/ SentinelWake
    \/ \E t \in Tasks : Add(t) \/ Remove(t)
    \/ \E w \in Waiters : WaitCall(w) \/ WaitReturn(w)

SpecGroup == Init /\ [][GroupNext]_vars

\* ------------------------------------------------- claims on TasksGroup.wait
\* C2: wait() returns exactly the tracked tasks that are finished: what it
\* returns holds no sentinel and no task that is not tracked (removed) when it
\* returns, every returned task is finished and is deleted from the tracked
\* set.
C2_ReturnsTrackedFinished ==
    ret.w # 0 =>
        /\ Sentinel \notin ret.result
        /\ ret.result \subseteq ret.tracked
        /\ \A t \in ret.result \ {Sentinel} : IsDone(t)
        /\ ret.result \cap tasks = {}

\* A waiter in flight is going to be resumed with nothing more happening
\* than the loop running what is already scheduled: a future it waits on is
\* done, or its sentinel has been resolved, or its sentinel has not started
\* and will find the flag up.
WillResume(w) ==
    \/ CanResume(w)
    \/ /\ wsent[w] = "cur"
       /\ \/ updState = "woken"
          \/ updState = "unstarted" /\ updated

\* C3: an add() or remove() unblocks every wait() in flight: no waiter stays
\* blocked on a snapshot that differs from the tracked set.
C3_ChangeUnblocksWaiters ==
    \A w \in Waiters :
        (wpc[w] = "waiting" /\ wsnap[w] # tasks) => WillResume(w)

\* C4, as stated: wait() returns the empty set only if the tracked set was
\* empty when it was called, and then it returns at once (no waiter is ever
\* suspended with an empty snapshot).
C4_EmptyOnlyIfEmptyAtCall ==
    /\ (ret.w # 0 /\ ret.result = {}) => ret.snap = {}
    /\ \A w \in Waiters : wpc[w] = "waiting" => wsnap[w] # {}

\* C4, amended: wait() returns the empty set only when it was woken by the
\* sentinel (a notification) with no task of its snapshot finished, whether or
\* not the tracked set was empty at the call; and a wait() called on an empty
\* tracked set returns only after the sentinel completed.
C4_EmptyOnlyIfSentinelFired ==
    ret.w # 0 =>
        /\ ret.result = {} => ret.fired
        /\ ret.snap = {} => ret.fired

\* wait() was called with a task tracked, and returned the empty set.
C4_Witness == ret.w # 0 /\ ret.result = {} /\ ret.snap # {} /\ ret.fired

\* -------------------------------------------------------------- TaskManager
\* The caller of wait() that TaskManager.run is.
RunWaiter == 1

\* on_done(task): task.exception() raises CancelledError for a cancelled
\* task; otherwise an error is logged for an exception and a warning for a
\* result (the sentinel, if handed over, is a task that returned True).
OnDone(t) ==
    IF t = Sentinel THEN "warning"
    ELSE IF taskState[t] = "cancelled" THEN "raise"
    ELSE IF taskState[t] = "exc" THEN "error"
    ELSE "warning"

\* add(task)
MgrAdd(t) == Add(t)

\* remove(task): task.cancel(), then TasksGroup.remove(task).
MgrRemove(t) ==
    /\ taskState[t] # "none"
    /\ taskState' = CancelTask(taskState, t)
    /\ tasks' = tasks \ {t}
    /\ updated' = NotifyFlag
    /\ updState' = NotifySentinel
    /\ ret' = NoRet
    /\ UNCHANGED outsideTasks
    /\ UNCHANGED <<wpc, wsnap, wsent, mgrVars>>

\* run(), from its start to the suspension in the first wait().
RunStart ==
    /\ runState = "new"
    /\ runState' = "running"
    /\ updated' = FALSE
    /\ wpc' = [wpc EXCEPT ![RunWaiter] = "waiting"]
    /\ wsnap' = [wsnap EXCEPT ![RunWaiter] = tasks]
    /\ wsent' = [wsent EXCEPT ![RunWaiter] = "cur"]
    /\ ret' = NoRet
    /\ UNCHANGED outsideTasks
    /\ UNCHANGED <<taskState, tasks, updState, log>>

\* run(), from the resumption of asyncio.wait: wait() returns, on_done is
\* called on each task returned and, unless it raised, wait() is called again
\* (nothing suspends in between).
RunResume ==
    LET w == RunWaiter
        done == WaitResult(w)
        left == tasks \ done
        raises == \E t \in done : OnDone(t) = "raise"
    IN  /\ runState = "running"
        /\ wpc[w] = "waiting"
        /\ CanResume(w)
        /\ tasks' = left
        /\ ret' = WaitRet(w, done, wsnap[w], tasks, Sentinel \in RawDone(w))
        /\ UNCHANGED outsideTasks
        /\ IF raises
           THEN \* the iteration stops at the first cancelled task
                /\ runState' = "raised"
                /\ \E logged \in SUBSET {t \in done : OnDone(t) # "raise"} :
                       log' = log \cup {<<t, OnDone(t)>> : t \in logged}
                /\ updState' = IF CurrentSentinelIn(w) THEN "unstarted" ELSE updState
                /\ wpc' = [wpc EXCEPT ![w] = "idle"]
                /\ wsnap' = [wsnap EXCEPT ![w] = {}]
                /\ wsent' = [wsent EXCEPT ![w] = "none"]
                /\ UNCHANGED <<taskState, updated>>
           ELSE /\ log' = log \cup {<<t, OnDone(t)>> : t \in done}
                /\ updState' = IF CurrentSentinelIn(w) THEN "unstarted" ELSE updState
                /\ updated' = FALSE
                /\ wsnap' = [wsnap EXCEPT ![w] = left]
                /\ wsent' = [wsent EXCEPT ![w] = "cur"]
                /\ UNCHANGED <<taskState, wpc, runState>>

\* The owner of run() cancels it while it waits.
RunCancel ==
    /\ runState = "running"
    /\ runState' = "cancelled"
    /\ wpc' = [wpc EXCEPT ![RunWaiter] = "idle"]
    /\ wsnap' = [wsnap EXCEPT ![RunWaiter] = {}]
    /\ wsent' = [wsent EXCEPT ![RunWaiter] = "none"]
    /\ ret' = NoRet
    /\ UNCHANGED outsideTasks
    /\ UNCHANGED <<taskState, groupVars, log>>

ManagerNext ==
    \/ \E t \in Tasks : TaskFinish(t, "ok") \/ TaskFinish(t, "exc")
    \/ \E t \in Tasks : TaskCancel(t) \/ TaskCancelled(t)
    \/ SentinelStart
    \/ SentinelWake
    \/ \E t \in Tasks : MgrAdd(t) \/ MgrRemove(t)
    \/ RunStart
    \/ RunResume
    \/ RunCancel

SpecManager == Init /\ [][ManagerNext]_vars

\* C1: TaskManager.run() never raises on its own, however a supervised task
\* ends (result, exception, cancellation, also the one remove() does); it
\* ends only by being cancelled.
C1_RunNeverRaises == runState # "raised"

\* ------------------------------------------- RabbitMQTopic.publish callers
\* The caller is back to idle.
Idle(c) ==
    /\ cpc' = [cpc EXCEPT ![c] = "idle"]
    /\ cwait' = [cwait EXCEPT ![c] = FALSE]
    /\ chas' = [chas EXCEPT ![c] = FALSE]
    /\ ckind' = [ckind EXCEPT ![c] = "none"]
    /\ attempt' = [attempt EXCEPT ![c] = 0]

\* publish() leaves the scope of reserve(), by a return or by an exception.
Exit(c, op) ==
    /\ SetLock(ScopeExit(LockState, c))
    /\ Idle(c)
    /\ ev' = Ev(op, c)

\* reserve(), once the slot is held (L): the mutex is taken for the minting,
\* at once if it is free, and then the body runs up to its first suspension
\* (the publish attempt).
EnterMutex(c, L, w) ==
    /\ cwait' = [cwait EXCEPT ![c] = w]
    /\ UNCHANGED <<chas, ckind, attempt>>
    /\ IF MutexFree(L)
       THEN /\ SetLock(Mint(L))
            /\ cpc' = [cpc EXCEPT ![c] = "body"]
            /\ ev' = Ev("minted", c)
       ELSE /\ SetLock(MutexEnqueue(L, c))
            /\ cpc' = [cpc EXCEPT ![c] = "mutex"]
            /\ ev' = Ev("queued", c)

\* SharedLock(max_reservations=n)
NewSharedLock(n) ==
    /\ lockBuilt = "no"
    /\ maxRes' = n
    /\ lockBuilt' = SharedLockInit(n).built
    /\ semValue' = SharedLockInit(n).sem
    /\ ev' = Ev("init", 0)
    /\ UNCHANGED <<mlocked, mwaiters, locker, cpc, cwait, chas, ckind, attempt>>
    /\ UNCHANGED outsideLock

\* publish(message, wait), up to its first suspension.
PublishCall(c, w) ==
    /\ lockBuilt = "yes"
    /\ cpc[c] = "idle"
    /\ IF ~w /\ LockedReservations(LockState)
       THEN /\ ev' = Ev("return_false", c)
            /\ UNCHANGED <<lockVars, cpc, cwait, chas, ckind, attempt>>
       ELSE IF SlotFree(LockState)
       THEN EnterMutex(c, SlotTake(LockState), w)
       ELSE /\ cpc' = [cpc EXCEPT ![c] = "slot"]
            /\ cwait' = [cwait EXCEPT ![c] = w]
            /\ ev' = Ev("queued", c)
            /\ UNCHANGED <<lockVars, chas, ckind, attempt>>
    /\ UNCHANGED outsideLock

\* A caller waiting for a slot gets one.
SlotGranted(c) ==
    /\ cpc[c] = "slot"
    /\ SlotFree(LockState)
    /\ EnterMutex(c, SlotTake(LockState), cwait[c])
    /\ UNCHANGED outsideLock

\* A caller queued on the mutex in reserve() is resumed.
MintGranted(c) ==
    /\ cpc[c] = "mutex"
    /\ Granted(c)
    /\ SetLock(Mint(MutexDequeue(LockState, c)))
    /\ cpc' = [cpc EXCEPT ![c] = "body"]
    /\ ev' = Ev("minted", c)
    /\ UNCHANGED <<cwait, chas, ckind, attempt>>
    /\ UNCHANGED outsideLock

\* The attempt succeeded: return True.
AttemptOk(c) ==
    /\ cpc[c] = "body"
    /\ Exit(c, "return_true")
    /\ UNCHANGED outsideLock

AfterAcquireAlwaysSleeps(c, has, k) ==
    /\ cpc' = [cpc EXCEPT ![c] = "sleep"]
    /\ chas' = [chas EXCEPT ![c] = has]
    /\ ckind' = [ckind EXCEPT ![c] = k]
    /\ UNCHANGED attempt

\* After reservation.acquire() returned: sleep if has_locked, else retry at
\* once (the Nack handler then resets attempt).
AfterAcquire(c, has, k) ==
    /\ cpc' = [cpc EXCEPT ![c] = IF has THEN "sleep" ELSE "body"]
    /\ chas' = [chas EXCEPT ![c] = has]
    /\ ckind' = [ckind EXCEPT ![c] = IF has THEN k ELSE "none"]
    /\ attempt' = [attempt EXCEPT ![c] = IF ~has /\ k = "nack" THEN 0 ELSE @]

\* A handler of publish() that retries: has_locked is computed, then
\* reservation.acquire() is awaited.
Retry(c, k) ==
    LET L == LockState
        has == L.locker = c \/ ~Locked(L)
    IN  /\ UNCHANGED cwait
        /\ IF HoldsLock(L, c)
           THEN /\ UNCHANGED lockVars
                /\ AfterAcquire(c, has, k)
                /\ ev' = Ev("reacquire", c)
           ELSE IF MutexFree(L)
           THEN /\ SetLock(LockTake(L, c))
                /\ AfterAcquire(c, has, k)
                /\ ev' = Ev("acquired", c)
           ELSE /\ SetLock(MutexEnqueue(L, c))
                /\ cpc' = [cpc EXCEPT ![c] = "acquire"]
                /\ chas' = [chas EXCEPT ![c] = has]
                /\ ckind' = [ckind EXCEPT ![c] = k]
                /\ UNCHANGED attempt
                /\ ev' = Ev("queued", c)

\* The attempt was rejected with Basic.Nack (queue full).
AttemptNack(c) ==
    /\ cpc[c] = "body"
    /\ IF ~cwait[c] THEN Exit(c, "return_false") ELSE Retry(c, "nack")
    /\ UNCHANGED outsideLock

\* The attempt failed with a DeliveryError that is no Basic.Nack: re-raised.
AttemptReject(c) ==
    /\ cpc[c] = "body"
    /\ Exit(c, "raise")
    /\ UNCHANGED outsideLock

\* The attempt failed with another exception.
AttemptError(c) ==
    /\ cpc[c] = "body"
    /\ cwait[c] => attempt[c] < MaxAttempt
    /\ IF ~cwait[c] THEN Exit(c, "raise") ELSE Retry(c, "error")
    /\ UNCHANGED outsideLock

\* A caller queued on the mutex in reservation.acquire() is resumed.
AcquireGranted(c) ==
    /\ cpc[c] = "acquire"
    /\ Granted(c)
    /\ SetLock(LockTake(MutexDequeue(LockState, c), c))
    /\ AfterAcquire(c, chas[c], ckind[c])
    /\ ev' = Ev("acquired", c)
    /\ UNCHANGED cwait
    /\ UNCHANGED outsideLock

\* The sleep of a handler ends: the next attempt starts.
SleepDone(c) ==
    /\ cpc[c] = "sleep"
    /\ cpc' = [cpc EXCEPT ![c] = "body"]
    /\ attempt' = [attempt EXCEPT ![c] = IF ckind[c] = "nack" THEN 0 ELSE @ + 1]
    /\ ckind' = [ckind EXCEPT ![c] = "none"]
    /\ chas' = [chas EXCEPT ![c] = FALSE]
    /\ ev' = Ev("slept", c)
    /\ UNCHANGED <<lockVars, cwait>>
    /\ UNCHANGED outsideLock

\* publish() is cancelled where it is suspended.
Cancel(c) ==
    /\ cpc[c] # "idle"
    /\ SetLock(CASE cpc[c] = "slot" -> LockState
                 [] cpc[c] = "mutex" -> SlotRelease(MutexDequeue(LockState, c))
                 [] cpc[c] = "acquire" -> ScopeExit(MutexDequeue(LockState, c), c)
                 [] OTHER -> ScopeExit(LockState, c))
    /\ Idle(c)
    /\ ev' = Ev("cancelled", c)
    /\ UNCHANGED outsideLock

LockNext ==
    \/ \E n \in 0..MaxReservations : NewSharedLock(n)
    \/ \E c \in Callers, w \in BOOLEAN : PublishCall(c, w)
    \/ \E c \in Callers : SlotGranted(c) \/ MintGranted(c)
    \/ \E c \in Callers : AttemptOk(c) \/ AttemptNack(c)
    \/ \E c \in Callers : AttemptReject(c) \/ AttemptError(c)
    \/ \E c \in Callers : AcquireGranted(c) \/ SleepDone(c)
    \/ \E c \in Callers : Cancel(c)

SpecLock == Init /\ [][LockNext]_vars

\* ---------------------------------------------------- claims on SharedLock
\* reservation.locked()
TokenLocked(c) == locker = c
\* The callers inside the scope of reserve(), and those holding a slot.
InScope == {c \in Callers : cpc[c] \in {"body", "acquire", "sleep"}}
Outstanding == {c \in Callers : cpc[c] \in {"mutex", "body", "acquire", "sleep"}}
ExitOps == {"return_true", "return_false", "raise", "cancelled"}
AllIdle == \A c \in Callers : cpc[c] = "idle"

\* C5: at most one token is the locker, and lock.locked() (the mutex is held)
\* is true exactly when a token is the locker, that token being one of a
\* caller still inside its reserve() scope.
C5_MutualExclusion ==
    /\ Cardinality({c \in Callers : TokenLocked(c)}) <= 1
    /\ Locked(LockState) <=> \E c \in Callers : TokenLocked(c)
    /\ locker # 0 => locker \in InScope

\* One token is the locker while another is queued to lock.
C5_Witness ==
    \E c, d \in Callers : c # d /\ TokenLocked(c) /\ cpc[d] = "acquire"

\* C6: with capacity N > 0 at most N reserve() scopes are outstanding; with
\* capacity 0 the lock exists and is unbounded: no reserve() waits for a slot.
C6_Capacity ==
    /\ lockBuilt # "TypeError"
    /\ (lockBuilt = "yes" /\ maxRes > 0) => Cardinality(Outstanding) <= maxRes
    /\ (lockBuilt = "yes" /\ maxRes = 0) => \A c \in Callers : cpc[c] # "slot"

\* C7: acquire() by the locker returns without suspending and leaves the lock
\* as it was (the locker is never queued on its own lock); acquire() by
\* another token completes only from a lock nobody holds, and makes that token
\* the locker; one release by the locker frees the lock.
C7_AcquireByIdentity ==
    /\ ev.op = "reacquire" =>
           /\ ev.before[1].locker = ev.c
           /\ LockState = ev.before[1]
           /\ cpc[ev.c] = "sleep"
    /\ \A c \in Callers : cpc[c] = "acquire" => ~TokenLocked(c)
    /\ ev.op = "acquired" =>
           /\ ev.before[1].locker = 0
           /\ ~ev.before[1].locked
           /\ TokenLocked(ev.c)
    /\ (ev.op \in ExitOps /\ ev.c # 0 /\ ev.before[1].locker = ev.c) =>
           locker = 0 /\ ~mlocked

\* The locker acquires again while another token is queued to lock.
C7_Witness ==
    /\ ev.op = "reacquire"
    /\ \E d \in Callers : d # ev.c /\ cpc[d] = "acquire"

\* C8: every exit of the scope of reserve() releases the token and frees the
\* slot: the free slots are those no caller holds, a caller that left is not
\* the locker, and with no call in flight the lock is unlocked, nobody is
\* queued and all the slots are free.
C8_ExitReleases ==
    /\ lockBuilt = "yes" => semValue = maxRes - Cardinality(Outstanding)
    /\ (ev.op \in ExitOps /\ ev.c # 0) => ~TokenLocked(ev.c)
    /\ locker # 0 => cpc[locker] # "idle"
    /\ (lockBuilt = "yes" /\ AllIdle) =>
           /\ locker = 0
           /\ ~mlocked
           /\ mwaiters = <<>>
           /\ semValue = maxRes

\* The locker was cancelled in its backoff sleep and no call is in flight.
C8_Witness ==
    /\ ev.op = "cancelled"
    /\ ev.before[1].locker = ev.c
    /\ AllIdle

\* C30: reserve() mints its token only while no token is the locker and the
\* mutex is free, having waited for that, and the mutex it takes for the
\* minting is released before the body of the scope runs.
C30_MintOnlyUnlocked ==
    ev.op = "minted" =>
        /\ ev.before[1].locker = 0
        /\ ~ev.before[1].locked
        /\ locker = 0
        /\ ~mlocked
        /\ cpc[ev.c] = "body"

\* A reserve() that queued on the mutex behind a locker mints its token.
C30_Witness ==
    /\ ev.op = "minted"
    /\ ev.before[1].waiters # <<>>
    /\ Head(ev.before[1].waiters) = ev.c

\* ------------------------------------------- claims on RabbitMQTopic.publish
\* C22: publish(message, wait=false) never sleeps and never waits for the
\* lock: it is never suspended waiting for a slot, for the mutex of reserve()
\* or of acquire(), or in a backoff sleep.
C22_NoWaitNeverWaits ==
    \A c \in Callers : ~cwait[c] => cpc[c] \in {"idle", "body"}

\* C23: publish(message, wait=true) never returns false and lets no failure
\* of an attempt escape: it ends only by returning true or by being cancelled.
C23_WaitNeverFails ==
    [][\A c \in Callers :
           (cwait[c] /\ cpc[c] # "idle" /\ cpc'[c] = "idle") =>
               ev'.op \in {"return_true", "cancelled"}]_vars

\* C24: at most one caller sleeps in a retry backoff and it is the locker; a
\* caller whose attempt failed while another caller was the locker has
\* has_locked false, and when it is given the lock it retries without
\* sleeping.
C24_LeaderSleepsAlone ==
    /\ [](/\ \A c \in Callers : cpc[c] = "sleep" => TokenLocked(c)
          /\ Cardinality({c \in Callers : cpc[c] = "sleep"}) <= 1
          /\ (/\ ev.op = "queued"
              /\ cpc[ev.c] = "acquire"
              /\ ev.before[1].locker \notin {0, ev.c}) => ~chas[ev.c])
    /\ [][\A c \in Callers :
             (cpc[c] = "acquire" /\ ~chas[c] /\ cpc'[c] # "acquire") =>
                 cpc'[c] \in {"body", "idle"}]_vars

\* A follower, queued while another caller was the locker, is given the lock
\* and retries at once.
C24_Witness ==
    /\ ev.op = "acquired"
    /\ ev.before[1].waiters # <<>>
    /\ cpc[ev.c] = "body"
    /\ TokenLocked(ev.c)

\* --------------------------------------------------------- DelayedThrottle
\* The least idle client stands for any idle client.
NextClient(c) == tpc[c] = "idle" /\ \A d \in Clients : d < c => tpc[d] # "idle"

\* The body of __call__ under delayed_lock: record the arguments and, when
\* delayed_task is None, create the task running _delay_call.
CallBody(a, idle) ==
    /\ thrArgs' = RecordedArgs(a)
    /\ IF thrTask = "none"
       THEN /\ thrTask' = "sleeping"
            /\ timer' = DelayTicks
            /\ burstInv' = 0
            /\ burstPure' = idle
            /\ burstFirst' = a
       ELSE UNCHANGED <<thrTask, timer, burstInv, burstPure, burstFirst>>
    /\ tev' = TEv("call", "none", a)

\* await throttle(a), up to its return or to its suspension on delayed_lock.
ThrCall(c, a) ==
    /\ NextClient(c)
    /\ calls < MaxCalls
    /\ calls' = calls + 1
    /\ lastArgs' = a
    /\ IF ThrLockFree
       THEN /\ CallBody(a, TRUE)
            /\ UNCHANGED <<thrQueue, tpc, targ>>
       ELSE /\ thrQueue' = Append(thrQueue, c)
            /\ tpc' = [tpc EXCEPT ![c] = "call_wait"]
            /\ targ' = [targ EXCEPT ![c] = a]
            /\ burstPure' = FALSE
            /\ tev' = NoTEv
            /\ UNCHANGED <<thrArgs, thrTask, timer, burstInv, burstFirst>>
    /\ UNCHANGED <<thrHeld, thrLocked>>
    /\ UNCHANGED outsideThrottle

\* A suspended call gets delayed_lock, runs its body and releases the lock.
ThrCallResume(c) ==
    /\ tpc[c] = "call_wait"
    /\ ThrGranted(c)
    /\ thrQueue' = ThrDequeue(c)
    /\ CallBody(targ[c], FALSE)
    /\ tpc' = [tpc EXCEPT ![c] = "idle"]
    /\ targ' = [targ EXCEPT ![c] = 0]
    /\ UNCHANGED <<thrHeld, thrLocked, calls, lastArgs>>
    /\ UNCHANGED outsideThrottle

\* One tick of asyncio.sleep(self.delay).
Tick ==
    /\ thrTask = "sleeping"
    /\ timer > 0
    /\ timer' = timer - 1
    /\ tev' = NoTEv
    /\ UNCHANGED <<thrTask, thrHeld, thrArgs, thrLocked, thrQueue>>
    /\ UNCHANGED <<tpc, targ, calls, lastArgs, burstInv, burstPure, burstFirst>>
    /\ UNCHANGED outsideThrottle

\* _delay_call, holding delayed_lock, calls func with the recorded arguments.
TaskInvoke ==
    /\ thrTask' = "running"
    /\ thrLocked' = TRUE
    /\ thrHeld' = TRUE
    /\ burstInv' = IF burstInv < MaxBurst THEN burstInv + 1 ELSE burstInv
    /\ tev' = TEv("invoke", "task", thrArgs)

\* The sleep of _delay_call is over: it takes delayed_lock or queues for it.
TimerFire ==
    /\ thrTask = "sleeping"
    /\ timer = 0
    /\ IF ThrLockFree
       THEN /\ TaskInvoke
            /\ UNCHANGED thrQueue
       ELSE /\ thrTask' = "lockwait"
            /\ thrQueue' = Append(thrQueue, DelayedTask)
            /\ tev' = NoTEv
            /\ UNCHANGED <<thrLocked, thrHeld, burstInv>>
    /\ UNCHANGED <<thrArgs, timer, tpc, targ, calls, lastArgs, burstPure, burstFirst>>
    /\ UNCHANGED outsideThrottle

\* _delay_call gets delayed_lock after having queued for it.
TaskLockGranted ==
    /\ thrTask = "lockwait"
    /\ ThrGranted(DelayedTask)
    /\ thrQueue' = ThrDequeue(DelayedTask)
    /\ TaskInvoke
    /\ UNCHANGED <<thrArgs, timer, tpc, targ, calls, lastArgs, burstPure, burstFirst>>
    /\ UNCHANGED outsideThrottle

\* func returns to _delay_call: delayed_task = None, and the lock is released.
TaskFuncDone ==
    /\ thrTask = "running"
    /\ thrTask' = "none"
    /\ thrLocked' = FALSE
    /\ thrHeld' = FALSE
    /\ tev' = NoTEv
    /\ UNCHANGED <<thrArgs, thrQueue, timer>>
    /\ UNCHANGED <<tpc, targ, calls, lastArgs, burstInv, burstPure, burstFirst>>
    /\ UNCHANGED outsideThrottle

\* func raises in _delay_call: the lock is released, the task is done with the
\* exception and delayed_task keeps referring to it.
TaskFuncFails ==
    /\ thrTask = "running"
    /\ thrTask' = "failed"
    /\ thrLocked' = FALSE
    /\ thrHeld' = FALSE
    /\ tev' = TEv("task_raise", "task", thrArgs)
    /\ UNCHANGED <<thrArgs, thrQueue, timer>>
    /\ UNCHANGED <<tpc, targ, calls, lastArgs, burstInv, burstPure, burstFirst>>
    /\ UNCHANGED outsideThrottle

\* The task running _delay_call takes the CancelledError: it leaves the queue
\* of the lock or releases the lock, and delayed_task keeps referring to it.
ThrTaskCancelled ==
    /\ thrTask = "cancelling"
    /\ thrTask' = "cancelled"
    /\ thrQueue' = ThrDequeue(DelayedTask)
    /\ thrLocked' = IF thrHeld THEN FALSE ELSE thrLocked
    /\ thrHeld' = FALSE
    /\ tev' = NoTEv
    /\ UNCHANGED <<thrArgs, timer>>
    /\ UNCHANGED <<tpc, targ, calls, lastArgs, burstInv, burstPure, burstFirst>>
    /\ UNCHANGED outsideThrottle

\* func is called by flush(), which holds delayed_lock.
FlushInvoke(c) ==
    /\ tpc' = [tpc EXCEPT ![c] = "flush_func"]
    /\ burstInv' = IF burstInv < MaxBurst THEN burstInv + 1 ELSE burstInv
    /\ tev' = TEv("invoke", "flush", thrArgs)
    /\ UNCHANGED thrTask

\* flush() once it holds delayed_lock: cancel(), which returns at once when
\* delayed_task is None or cancelled, raises the exception of a failed task
\* (the lock is released and flush() is left with it) and else cancels the
\* task and awaits it, then the call of func.
FlushBody(c) ==
    /\ burstPure' = FALSE
    /\ IF thrTask \in {"none", "cancelled"}
       THEN /\ thrLocked' = TRUE
            /\ FlushInvoke(c)
       ELSE IF thrTask = "failed"
       THEN /\ thrLocked' = FALSE
            /\ tpc' = [tpc EXCEPT ![c] = "idle"]
            /\ tev' = TEv("flush_reraise", "flush", thrArgs)
            /\ UNCHANGED <<thrTask, burstInv>>
       ELSE /\ thrLocked' = TRUE
            /\ thrTask' = "cancelling"
            /\ tpc' = [tpc EXCEPT ![c] = "flush_cancel"]
            /\ tev' = NoTEv
            /\ UNCHANGED burstInv

\* await throttle.flush(), up to its first suspension.
Flush(c) ==
    /\ NextClient(c)
    /\ IF thrTask = "none"
       THEN /\ tev' = TEv("flush_noop", "none", 0)
            /\ UNCHANGED <<thrTask, thrLocked, thrQueue, tpc, burstInv, burstPure>>
       ELSE IF ThrLockFree
            THEN /\ FlushBody(c)
                 /\ UNCHANGED thrQueue
            ELSE /\ thrQueue' = Append(thrQueue, c)
                 /\ tpc' = [tpc EXCEPT ![c] = "flush_wait"]
                 /\ burstPure' = FALSE
                 /\ tev' = NoTEv
                 /\ UNCHANGED <<thrTask, thrLocked, burstInv>>
    /\ UNCHANGED <<thrHeld, thrArgs, timer, targ, calls, lastArgs, burstFirst>>
    /\ UNCHANGED outsideThrottle

\* A suspended flush() gets delayed_lock.
FlushResume(c) ==
    /\ tpc[c] = "flush_wait"
    /\ ThrGranted(c)
    /\ thrQueue' = ThrDequeue(c)
    /\ FlushBody(c)
    /\ UNCHANGED <<thrHeld, thrArgs, timer, targ, calls, lastArgs, burstFirst>>
    /\ UNCHANGED outsideThrottle

\* The task flush() cancelled is done: flush() calls func.
FlushAfterCancel(c) ==
    /\ tpc[c] = "flush_cancel"
    /\ thrTask = "cancelled"
    /\ FlushInvoke(c)
    /\ UNCHANGED <<thrHeld, thrArgs, thrLocked, thrQueue, timer>>
    /\ UNCHANGED <<targ, calls, lastArgs, burstPure, burstFirst>>
    /\ UNCHANGED outsideThrottle

\* func returns to flush(): delayed_task = None, the lock is released and
\* flush() returns.
FlushFuncDone(c) ==
    /\ tpc[c] = "flush_func"
    /\ thrTask' = "none"
    /\ thrLocked' = FALSE
    /\ tpc' = [tpc EXCEPT ![c] = "idle"]
    /\ tev' = TEv("flush_return", "flush", thrArgs)
    /\ UNCHANGED <<thrHeld, thrArgs, thrQueue, timer>>
    /\ UNCHANGED <<targ, calls, lastArgs, burstInv, burstPure, burstFirst>>
    /\ UNCHANGED outsideThrottle

\* func raises in flush(): the lock is released and flush() is left with the
\* exception, delayed_task still referring to the task flush() cancelled.
FlushFuncFails(c) ==
    /\ tpc[c] = "flush_func"
    /\ thrLocked' = FALSE
    /\ tpc' = [tpc EXCEPT ![c] = "idle"]
    /\ tev' = TEv("flush_raise", "flush", thrArgs)
    /\ UNCHANGED <<thrTask, thrHeld, thrArgs, thrQueue, timer>>
    /\ UNCHANGED <<targ, calls, lastArgs, burstInv, burstPure, burstFirst>>
    /\ UNCHANGED outsideThrottle

\* await throttle.cancel(), up to its return or to the await of the task; the
\* await of a failed task raises its exception.
ThrCancel(c) ==
    /\ NextClient(c)
    /\ thrTask # "none"
    /\ IF thrTask \in {"cancelled", "failed"}
       THEN UNCHANGED <<thrTask, tpc>>
       ELSE /\ thrTask' = "cancelling"
            /\ tpc' = [tpc EXCEPT ![c] = "cancel_wait"]
    /\ burstPure' = FALSE
    /\ tev' = IF thrTask = "failed" THEN TEv("cancel_reraise", "none", 0) ELSE NoTEv
    /\ UNCHANGED <<thrHeld, thrArgs, thrLocked, thrQueue, timer>>
    /\ UNCHANGED <<targ, calls, lastArgs, burstInv, burstFirst>>
    /\ UNCHANGED outsideThrottle

\* The task cancel() awaits is done: cancel() returns.
ThrCancelReturn(c) ==
    /\ tpc[c] = "cancel_wait"
    /\ thrTask # "cancelling"
    /\ tpc' = [tpc EXCEPT ![c] = "idle"]
    /\ tev' = NoTEv
    /\ UNCHANGED thrVars
    /\ UNCHANGED <<targ, calls, lastArgs, burstInv, burstPure, burstFirst>>
    /\ UNCHANGED outsideThrottle

ThrottleNext ==
    \/ \E c \in Clients, a \in Args : ThrCall(c, a)
    \/ \E c \in Clients : ThrCallResume(c)
    \/ Tick
    \/ TimerFire
    \/ TaskLockGranted
    \/ TaskFuncDone
    \/ TaskFuncFails
    \/ ThrTaskCancelled
    \/ \E c \in Clients : Flush(c)
    \/ \E c \in Clients : FlushResume(c)
    \/ \E c \in Clients : FlushAfterCancel(c)
    \/ \E c \in Clients : FlushFuncDone(c)
    \/ \E c \in Clients : FlushFuncFails(c)
    \/ \E c \in Clients : ThrCancel(c)
    \/ \E c \in Clients : ThrCancelReturn(c)

SpecThrottle == Init /\ [][ThrottleNext]_vars

\* The throttle when cancel() is not used and func does not fail: calls and
\* flush() only, and func returns.
CallFlushNext ==
    \/ \E c \in Clients, a \in Args : ThrCall(c, a)
    \/ \E c \in Clients : ThrCallResume(c)
    \/ Tick
    \/ TimerFire
    \/ TaskLockGranted
    \/ TaskFuncDone
    \/ ThrTaskCancelled
    \/ \E c \in Clients : Flush(c)
    \/ \E c \in Clients : FlushResume(c)
    \/ \E c \in Clients : FlushAfterCancel(c)
    \/ \E c \in Clients : FlushFuncDone(c)

\* The event loop runs every task that is ready, the sleep of the delay ends
\* and func, once called, returns: whoever was woken on delayed_lock takes it,
\* and the task flush() cancelled takes its CancelledError.
SpecThrottleFair ==
    /\ Init /\ [][CallFlushNext]_vars
    /\ \A c \in Clients : WF_vars(ThrCallResume(c))
    /\ WF_vars(Tick)
    /\ WF_vars(TimerFire)
    /\ WF_vars(TaskLockGranted)
    /\ WF_vars(TaskFuncDone)
    /\ WF_vars(ThrTaskCancelled)
    /\ \A c \in Clients : WF_vars(FlushResume(c))
    /\ \A c \in Clients : WF_vars(FlushAfterCancel(c))
    /\ \A c \in Clients : WF_vars(FlushFuncDone(c))

\* ----------------------------------------------- claims on DelayedThrottle
\* C9: calls made within one delay window, starting from an idle throttle
\* (delayed_task None, nobody on delayed_lock) and with no flush() or cancel(),
\* lead to exactly one invocation of func, made when the sleep of the delay is
\* over, with the arguments of the last call.
C9_BurstInvokedOnce ==
    /\ burstPure => burstInv <= 1
    /\ (tev.op = "invoke" /\ tev.by = "task" /\ burstPure) =>
           /\ tev.args = lastArgs
           /\ burstInv = 1
           /\ timer = 0

\* A burst of calls with different arguments has just been invoked.
C9_Witness ==
    /\ tev.op = "invoke"
    /\ tev.by = "task"
    /\ burstPure
    /\ burstFirst # lastArgs
    /\ tev.args = lastArgs

\* C10: when flush() returns, func has been invoked exactly once since the
\* delayed invocation was scheduled.
C10_FlushInvokesOnce == tev.op = "flush_return" => burstInv = 1

\* C31: when cancel() returns after having cancelled the pending invocation,
\* the throttle is idle again: delayed_task is None, so that the next call
\* schedules a new delayed invocation.
C31_CancelLeavesIdle ==
    [][\A c \in Clients :
           (tpc[c] = "cancel_wait" /\ tpc'[c] = "idle") => thrTask' = "none"]_vars

\* C33: when cancel() is not used and func does not fail, no call is lost: a
\* call that waits for delayed_lock (func is executing) gets to record its
\* arguments, a call that has recorded its arguments leaves a delayed
\* invocation scheduled, and func is invoked afterwards, hence with these
\* arguments or with those of a later call.
C33_NoLostUpdate ==
    /\ \A c \in Clients : (tpc[c] = "call_wait") ~> (tpc[c] = "idle")
    /\ [](tev.op = "call" => Scheduled)
    /\ (tev.op = "call") ~> (tev.op = "invoke" /\ tev.args = thrArgs)

\* The delayed invocation scheduled by a call that had to wait for
\* delayed_lock fires with the arguments of the latest call.
C33_Witness ==
    /\ tev.op = "invoke"
    /\ tev.by = "task"
    /\ ~burstPure
    /\ burstInv = 1
    /\ calls = MaxCalls
    /\ tev.args = lastArgs
    /\ \A c \in Clients : tpc[c] = "idle"

\* C28: when func raises, in the delayed invocation or inside flush(), the
\* scheduled marker is cleared: delayed_task is None, so that a later call
\* schedules a new delayed invocation.
C28_ErrorClearsMarker ==
    tev.op \in {"task_raise", "flush_raise"} => thrTask = "none"

\* ----------------------------------------------------------- CachedProperty
\* The least idle reader stands for any idle reader.
NextReader(r) == rpc[r] = "idle" /\ \A q \in Readers : q < r => rpc[q] # "idle"

\* await instance.prop, up to its return or its first suspension: with an empty
\* slot the reader creates the task of the getter and stores it, otherwise it
\* awaits what the slot holds, which does not suspend when that is done.
Read(r) ==
    /\ NextReader(r)
    /\ IF SlotEmpty
       THEN /\ runs < MaxRuns
            /\ runs' = runs + 1
            /\ initState' = [initState EXCEPT ![runs + 1] = "running"]
            /\ slotKind' = "task"
            /\ slotRun' = runs + 1
            /\ rpc' = [rpc EXCEPT ![r] = "creator"]
            /\ rrun' = [rrun EXCEPT ![r] = runs + 1]
            /\ mev' = MEv("suspend", r, "creator", runs + 1, 0, TRUE)
       ELSE IF slotKind = "task" /\ ~InitDone(slotRun)
            THEN /\ rpc' = [rpc EXCEPT ![r] = "attached"]
                 /\ rrun' = [rrun EXCEPT ![r] = slotRun]
                 /\ mev' = MEv("suspend", r, "attached", slotRun, 0, TRUE)
                 /\ UNCHANGED memoVars
            ELSE /\ mev' = MEv(OutcomeOp(slotRun), r, "attached", slotRun,
                               OutcomeValue(slotRun), TRUE)
                 /\ UNCHANGED <<memoVars, rpc, rrun>>
    /\ UNCHANGED <<rmust, succeeded>>
    /\ UNCHANGED outsideMemo

\* The getter returns or raises.
InitFinish(k, o) ==
    /\ initState[k] = "running"
    /\ initState' = [initState EXCEPT ![k] = o]
    /\ succeeded' = IF o = "ok" /\ succeeded = 0 /\ slotKind = "task" /\ slotRun = k
                    THEN k ELSE succeeded
    /\ mev' = NoMEv
    /\ UNCHANGED <<slotKind, slotRun, runs, rpc, rrun, rmust>>
    /\ UNCHANGED outsideMemo

\* The task of the getter takes the CancelledError.
InitCancelled(k) ==
    /\ initState[k] = "cancelling"
    /\ initState' = [initState EXCEPT ![k] = "cancelled"]
    /\ mev' = NoMEv
    /\ UNCHANGED <<slotKind, slotRun, runs, rpc, rrun, rmust, succeeded>>
    /\ UNCHANGED outsideMemo

\* A suspended reader resumes once the task it awaits is done: the creator
\* replaces the task by a future of its result, or deletes the slot on any
\* exception, its own cancellation included.
ReaderResume(r) ==
    /\ rpc[r] # "idle"
    /\ InitDone(rrun[r])
    /\ LET k == rrun[r]
           op == IF rmust[r] THEN "cancelled" ELSE OutcomeOp(k)
           value == IF op = "return" THEN OutcomeValue(k) ELSE 0
       IN /\ IF rpc[r] = "creator"
             THEN IF op = "return"
                  THEN /\ slotKind' = "future"
                       /\ slotRun' = k
                  ELSE /\ slotKind' = SlotAfterFailure
                       /\ slotRun' = IF SlotAfterFailure = "empty" THEN 0 ELSE slotRun
             ELSE UNCHANGED <<slotKind, slotRun>>
          /\ mev' = MEv(op, r, rpc[r], k, value, FALSE)
    /\ rpc' = [rpc EXCEPT ![r] = "idle"]
    /\ rrun' = [rrun EXCEPT ![r] = 0]
    /\ rmust' = [rmust EXCEPT ![r] = FALSE]
    /\ UNCHANGED <<initState, runs, succeeded>>
    /\ UNCHANGED outsideMemo

\* Someone cancels the task of a suspended reader: Task.cancel() cancels the
\* task the reader awaits, or, when that one is done, marks the reader.
CancelReader(r) ==
    /\ rpc[r] # "idle"
    /\ ~rmust[r]
    /\ initState[rrun[r]] # "cancelling"
    /\ IF initState[rrun[r]] = "running"
       THEN /\ initState' = [initState EXCEPT ![rrun[r]] = "cancelling"]
            /\ UNCHANGED rmust
       ELSE /\ rmust' = [rmust EXCEPT ![r] = TRUE]
            /\ UNCHANGED initState
    /\ mev' = NoMEv
    /\ UNCHANGED <<slotKind, slotRun, runs, rpc, rrun, succeeded>>
    /\ UNCHANGED outsideMemo

MemoNext ==
    \/ \E r \in Readers : Read(r)
    \/ \E k \in Runs, o \in {"ok", "exc"} : InitFinish(k, o)
    \/ \E k \in Runs : InitCancelled(k)
    \/ \E r \in Readers : ReaderResume(r)
    \/ \E r \in Readers : CancelReader(r)

SpecMemo == Init /\ [][MemoNext]_vars

\* ------------------------------------------------ claims on CachedProperty
\* C11: at most one run of the getter is in flight, it is the one the slot
\* holds (so a reader that arrives attaches to it), and a reader that returns
\* returns the result of the run it awaited, which succeeded.
C11_SingleFlight ==
    /\ Cardinality(InFlight) <= 1
    /\ \A k \in InFlight : slotKind = "task" /\ slotRun = k
    /\ \A r \in Readers : rpc[r] # "idle" /\ ~InitDone(rrun[r]) => rrun[r] = slotRun
    /\ mev.op = "return" => initState[mev.run] = "ok" /\ mev.value = Result(mev.run)

\* Two readers of one run: the creator has stored the result and the reader
\* that attached returns it, the getter having run once.
C11_Witness ==
    /\ mev.op = "return"
    /\ mev.role = "attached"
    /\ ~mev.started
    /\ slotKind = "future"
    /\ slotRun = mev.run
    /\ runs = 1

\* C12: a run that failed gives its failure to every reader that awaited it,
\* its creator empties the slot, and a failed run stays in the slot only
\* until its creator resumes: it is never kept as the value.
C12_FailureNotCached ==
    /\ slotKind = "future" => initState[slotRun] = "ok"
    /\ (slotKind = "task" /\ InitDone(slotRun) /\ initState[slotRun] # "ok") =>
           \E r \in Readers : rpc[r] = "creator" /\ rrun[r] = slotRun
    /\ (mev.role = "creator" /\ mev.op \in {"raise", "cancelled"}) => slotKind = "empty"
    /\ (mev.op \notin {"none", "suspend"} /\ initState[mev.run] = "exc") =>
           mev.op \in {"raise", "cancelled"}

\* A reader that attached to a failed run gets the failure while a fresh run,
\* started by a later read, is in the slot.
C12_Witness ==
    /\ mev.op = "raise"
    /\ mev.role = "attached"
    /\ initState[mev.run] = "exc"
    /\ slotKind = "task"
    /\ slotRun > mev.run

\* C13: once a run of the getter has succeeded the slot stays resolved with
\* its result, every read that starts returns that result without
\* suspending, and the getter is not run again.
C13_FrozenAfterSuccess ==
    succeeded # 0 =>
        /\ slotKind # "empty"
        /\ slotRun = succeeded
        /\ runs = succeeded
        /\ mev.started => mev.op = "return" /\ mev.value = Result(succeeded)

\* C32: the cancellation of one reader does not cancel the run of the getter
\* that other readers await: a run is cancelled only while the cancelled
\* reader is the only one suspended on it.
C32_CancelSparesOthers ==
    [][\A k \in Runs :
           (initState[k] = "running" /\ initState'[k] = "cancelling") =>
               Cardinality({r \in Readers : rpc[r] # "idle" /\ rrun[r] = k}) <= 1]_vars

\* ------------------------------------------------------------------- Broker
\* run() up to await self.running_task: gather wraps the three coroutines in
\* tasks, which run up to their first await.
BrokerRun ==
    /\ brun = "new"
    /\ isRunning' = TRUE
    /\ gather' = "pending"
    /\ loop' = [l \in Loops |-> "running"]
    /\ brun' = "waiting"
    /\ bev' = NoBEv
    /\ UNCHANGED <<closeLog, dispatchVars, syncVars>>
    /\ UNCHANGED outsideBroker

\* The child l of gather is over with outcome o.
LoopOverWith(l, o) ==
    /\ loop' = [loop EXCEPT ![l] = o]
    /\ gather' = GatherAfter([loop EXCEPT ![l] = o], o)

\* (mutant) the dispatch loop asks for the next message at any time.
CanPullAlways == TRUE

\* run_queue_manager is at the async for, not in executor.submit.
CanPull == dpc = "pull"

\* The scheduler yields its next message and the loop calls executor.submit.
DispatchPull ==
    /\ loop["dispatch"] = "running"
    /\ CanPull
    /\ ~schedEnded
    /\ produced < MaxMsgs
    /\ produced' = produced + 1
    /\ submitted' = Append(submitted, produced + 1)
    /\ dpc' = "submit"
    /\ bev' = NoBEv
    /\ UNCHANGED <<brokerVars, submitDone, schedEnded, syncVars>>
    /\ UNCHANGED outsideBroker

\* executor.submit returns.
SubmitReturn ==
    /\ loop["dispatch"] = "running"
    /\ dpc = "submit"
    /\ submitDone' = submitDone + 1
    /\ dpc' = "pull"
    /\ bev' = NoBEv
    /\ UNCHANGED <<brokerVars, produced, submitted, schedEnded, syncVars>>
    /\ UNCHANGED outsideBroker

\* The sequence of scheduler.run() ends: run_queue_manager returns.
SchedulerEnds ==
    /\ loop["dispatch"] = "running"
    /\ dpc = "pull"
    /\ schedEnded' = TRUE
    /\ LoopOverWith("dispatch", "ended")
    /\ bev' = NoBEv
    /\ UNCHANGED <<isRunning, brun, closeLog, dpc, produced, submitted, submitDone, syncVars>>
    /\ UNCHANGED outsideBroker

\* run_worker_manager from call i of the plan pl on, up to its next await:
\* the await of resources_manager.add, or, with the six loops over, the
\* test of is_running and the await of the next work_manager.sync().
SyncStretch(pl, i, done) ==
    LET n == Stretch(pl, i)
        made == done \o SubSeq(pl, i, i + n - 1)
    IN /\ plan' = pl
       /\ applied' = made
       /\ IF n > 0 /\ Suspends(pl[i + n - 1])
          THEN /\ spc' = "resource"
               /\ UNCHANGED <<loop, gather>>
          ELSE /\ spc' = "sync"
               /\ IF isRunning
                  THEN UNCHANGED <<loop, gather>>
                  ELSE LoopOverWith("sync", "ended")

\* work_manager.sync() returns the diff d.
SyncReturn(d) ==
    /\ loop["sync"] = "running"
    /\ spc = "sync"
    /\ SyncStretch(PlanFrom(d, 1), 1, <<>>)
    /\ bev' = NoBEv
    /\ UNCHANGED <<isRunning, brun, closeLog, dispatchVars>>
    /\ UNCHANGED outsideBroker

\* resources_manager.add returns.
ResourceAdded ==
    /\ loop["sync"] = "running"
    /\ spc = "resource"
    /\ SyncStretch(plan, Len(applied) + 1, applied)
    /\ bev' = NoBEv
    /\ UNCHANGED <<isRunning, brun, closeLog, dispatchVars>>
    /\ UNCHANGED outsideBroker

\* The await a loop is suspended in raises: the coroutine ends with it.
LoopFails(l) ==
    /\ loop[l] = "running"
    /\ LoopOverWith(l, "failed")
    /\ bev' = NoBEv
    /\ UNCHANGED <<isRunning, brun, closeLog, dispatchVars, syncVars>>
    /\ UNCHANGED outsideBroker

\* A cancelled loop takes the CancelledError at its await.
LoopCancelled(l) ==
    /\ loop[l] = "cancelling"
    /\ LoopOverWith(l, "cancelled")
    /\ bev' = NoBEv
    /\ UNCHANGED <<isRunning, brun, closeLog, dispatchVars, syncVars>>
    /\ UNCHANGED outsideBroker

\* running_task.cancel(): the gathering future cancels its children that are
\* not done.
CancelGather ==
    IF gather = "pending"
    THEN loop' = [l \in Loops |-> IF loop[l] = "running" THEN "cancelling" ELSE loop[l]]
    ELSE UNCHANGED loop

\* stop()
Stop ==
    /\ bev' = BEv("stop", gather # "none")
    /\ IF gather = "none" THEN UNCHANGED loop ELSE CancelGather
    /\ UNCHANGED <<isRunning, gather, brun, closeLog, dispatchVars, syncVars>>
    /\ UNCHANGED outsideBroker

\* The task running run() is cancelled while it awaits running_task.
BrokerRunCancel ==
    /\ brun = "waiting"
    /\ gather = "pending"
    /\ \E l \in Loops : loop[l] = "running"
    /\ CancelGather
    /\ bev' = NoBEv
    /\ UNCHANGED <<isRunning, gather, brun, closeLog, dispatchVars, syncVars>>
    /\ UNCHANGED outsideBroker

\* await self.running_task is over: the result, the exception or the
\* CancelledError is logged and the finally calls close().
BrokerRunResume ==
    /\ brun = "waiting"
    /\ gather \in {"result", "exc", "cancelled"}
    /\ brun' = "closing"
    /\ bev' = NoBEv
    /\ UNCHANGED <<isRunning, gather, loop, closeLog, dispatchVars, syncVars>>
    /\ UNCHANGED outsideBroker

\* close(): the next await of close(), which returns (ok) or raises; an
\* exception leaves close() and run().
CloseStep(ok) ==
    /\ brun = "closing"
    /\ closeLog' = Append(closeLog, CloseOrder[Len(closeLog) + 1])
    /\ brun' = IF ~ok THEN "raised"
               ELSE IF Len(closeLog) + 1 = Len(CloseOrder) THEN "returned"
               ELSE "closing"
    /\ bev' = NoBEv
    /\ UNCHANGED <<isRunning, gather, loop, dispatchVars, syncVars>>
    /\ UNCHANGED outsideBroker

BrokerNext ==
    \/ BrokerRun
    \/ DispatchPull
    \/ SubmitReturn
    \/ SchedulerEnds
    \/ \E d \in Diffs : SyncReturn(d)
    \/ ResourceAdded
    \/ \E l \in Loops : LoopFails(l)
    \/ \E l \in Loops : LoopCancelled(l)
    \/ Stop
    \/ BrokerRunCancel
    \/ BrokerRunResume
    \/ \E ok \in BOOLEAN : CloseStep(ok)

SpecBroker == Init /\ [][BrokerNext]_vars

\* The event loop runs every task that is ready: run() starts, the scheduler
\* yields while it has work and the executor takes what is submitted.
SpecBrokerFair ==
    /\ SpecBroker
    /\ WF_vars(BrokerRun)
    /\ WF_vars(DispatchPull)
    /\ WF_vars(SubmitReturn)

\* --------------------------------------------------------- claims on Broker
\* C14: run() waits on the three loops only until one of them is over, by
\* returning, raising or being cancelled: with a loop over, run() is no
\* longer held by running_task.
C14_StopsAtFirstEnd ==
    (brun = "waiting" /\ \E l \in Loops : LoopOver(loop[l])) => gather # "pending"

\* C15: after stop() is_running is false and no loop of running_task is left
\* running.
C15_StopClearsRunning ==
    bev.op = "stop" =>
        /\ ~isRunning
        /\ bev.had => \A l \in Loops : loop[l] # "running"

\* C16: when close() is over, by returning or raising, it has called the
\* close of all four components, in order.
C16_CloseAttemptsAll ==
    brun \in {"returned", "raised"} => closeLog = CloseOrder

\* C17: the calls made for a diff are in the order add queues, add tasks, add
\* resources, drop queues, drop tasks, drop resources; no drop is made before
\* every add of the diff; and a cycle that reaches the next sync() has made
\* all of them.
C17_AddsBeforeDrops ==
    /\ \A i, j \in 1..Len(applied) :
           i < j => DiffIndex(applied[i]) <= DiffIndex(applied[j])
    /\ (\E i \in 1..Len(applied) : applied[i][2] = "drop") =>
           \A k \in 1..Len(plan) :
               plan[k][2] = "add" => \E i \in 1..Len(applied) : applied[i] = plan[k]
    /\ (loop["sync"] = "running" /\ spc = "sync") =>
           /\ Len(applied) = Len(plan)
           /\ \A k \in 1..Len(plan) : \E i \in 1..Len(applied) : applied[i] = plan[k]

\* The diff {queues: {add: [1]}, tasks: {drop: [1]}} has been applied.
C17_Witness ==
    /\ plan = <<<<"queues", "add", 1>>, <<"tasks", "drop", 1>>>>
    /\ applied = plan
    /\ loop["sync"] = "running"

\* C18: the submit calls are the messages the scheduler yielded, each once and
\* in order; at most one submit is outstanding, and none while the loop asks
\* for the next message; the loop returns only when the sequence has ended,
\* every submit having returned.
C18_DispatchInOrder ==
    /\ submitted = [i \in 1..produced |-> i]
    /\ Len(submitted) - submitDone = IF dpc = "submit" THEN 1 ELSE 0
    /\ loop["dispatch"] = "ended" => schedEnded /\ submitDone = produced

\* Two messages were submitted in order and the loop has ended with the
\* sequence.
C18_Witness ==
    /\ submitted = <<1, 2>>
    /\ submitDone = 2
    /\ loop["dispatch"] = "ended"

\* run() waits and its three loops run, the sequence of the scheduler not ended.
C25_Healthy ==
    /\ brun = "waiting"
    /\ \A l \in Loops : loop[l] = "running"
    /\ ~schedEnded

C26_NoStepAfterFatal ==
    [][(brun = "returned" /\ gather = "exc") =>
           UNCHANGED <<submitted, plan, applied>>]_vars

\* ---------------------------------------------------------- TasksGroup.close
\* close(timeout), up to await self.updated_task: the sentinel is cancelled.
CloseCall(timed) ==
    /\ clpc = "idle"
    /\ clpc' = "sentinel"
    /\ cltimeout' = timed
    /\ cev' = NoCEv
    /\ UNCHANGED <<taskState, groupVars, clsnap>>
    /\ UNCHANGED outsideClose

\* The rest of close() from the forced cancellation to the second
\* asyncio.wait, which raises ValueError when given an empty set.
CloseCancelAndWait ==
    /\ taskState' = CancelRemaining(taskState, tasks)
    /\ IF tasks = {}
       THEN /\ clpc' = "raised"
            /\ clsnap' = {}
       ELSE /\ clpc' = "collect"
            /\ clsnap' = tasks
    /\ cev' = NoCEv

\* The cancelled sentinel is done: close() returns if no task is tracked, else
\* starts the wait of the grace period, or, with no timeout, cancels the tasks
\* and starts the wait that collects.
CloseAfterSentinel ==
    /\ clpc = "sentinel"
    /\ updState' = "done"
    /\ IF tasks = {}
       THEN /\ clpc' = "returned"
            /\ cev' = CEv({}, {}, {}, {}, cltimeout)
            /\ UNCHANGED <<taskState, clsnap>>
       ELSE IF cltimeout
            THEN /\ clpc' = "grace"
                 /\ clsnap' = tasks
                 /\ cev' = NoCEv
                 /\ UNCHANGED taskState
            ELSE CloseCancelAndWait
    /\ UNCHANGED <<tasks, updated, cltimeout>>
    /\ UNCHANGED outsideClose

\* The wait of the grace period is over.
GraceOver ==
    /\ clpc = "grace"
    /\ WaitOver(clsnap, cltimeout)
    /\ CloseCancelAndWait
    /\ UNCHANGED <<groupVars, cltimeout>>
    /\ UNCHANGED outsideClose

\* The wait that collects is over: the outcomes are logged, self.tasks is
\* cleared and close() returns.
CollectOver ==
    /\ clpc = "collect"
    /\ WaitOver(clsnap, cltimeout)
    /\ LET done == {t \in clsnap : IsDone(t)}
       IN cev' = CEv(clsnap, done, clsnap \ done, tasks, cltimeout)
    /\ tasks' = {}
    /\ clpc' = "returned"
    /\ clsnap' = {}
    /\ UNCHANGED <<taskState, updated, updState, cltimeout>>
    /\ UNCHANGED outsideClose

\* close() is not over: the group is used up to the return of close().
CloseOpen == clpc \notin {"returned", "raised"}

CloseNext ==
    \/ CloseOpen /\ \E t \in Tasks : Add(t)
    \/ CloseOpen /\ \E t \in Tasks : Remove(t)
    \/ CloseOpen /\ \E t \in Tasks, o \in {"ok", "exc"} : TaskFinish(t, o)
    \/ CloseOpen /\ \E t \in Tasks : TaskCancelled(t)
    \/ \E timed \in BOOLEAN : CloseCall(timed)
    \/ CloseAfterSentinel
    \/ GraceOver
    \/ CollectOver

SpecClose == Init /\ [][CloseNext]_vars

\* ----------------------------------------------- claims on TasksGroup.close
\* C19 (as claimed): when close() returns the tracked set is empty and every
\* task that was tracked is finished.
C19_AllFinishedAtReturn ==
    cev.op = "close_return" =>
        /\ tasks = {}
        /\ \A t \in cev.cleared : IsDone(t)

\* C19 (amended): when close() returns the tracked set is empty; every task
\* given to the wait that collects is finished or was cancelled, and is
\* unfinished only if a timeout was given, in which case it is among the
\* tasks logged as not completing.
C19_CollectsOrLogs ==
    cev.op = "close_return" =>
        /\ tasks = {}
        /\ \A t \in cev.snap : IsDone(t) \/ taskState[t] = "cancelling"
        /\ \A t \in cev.snap : ~IsDone(t) => cev.timeout /\ t \in cev.pending
        /\ \A t \in cev.done : IsDone(t)

\* close(timeout) returns with one task collected and one that did not
\* respond to its cancellation in time.
C19_Witness ==
    /\ cev.op = "close_return"
    /\ cev.timeout
    /\ cev.done # {}
    /\ \E t \in cev.pending : taskState[t] = "cancelling"

\* C29: close() cancels a tracked task only when the wait of the grace period
\* is over: no task is cancelled by a close() that has not waited for it.
C29_GraceBeforeCancel ==
    [][(\E t \in Tasks : taskState[t] = "pending" /\ taskState'[t] = "cancelling")
           => clpc = "grace"]_vars

\* ------------------------------------------------------- RabbitMQTopic.run
\* The consumer asks the generator for its first message: attempt = 0 and
\* the loop awaits self.queue.
ConsumeStart ==
    /\ kpc = "new"
    /\ kpc' = "connecting"
    /\ kattempt' = 0
    /\ UNCHANGED <<kdelay, delivered, kstreak>>
    /\ UNCHANGED kcached
    /\ UNCHANGED outsideConsume

\* await self.queue returns, the getters of channel and queue having run if
\* the properties held nothing, and the iterator is entered.
QueueReady ==
    /\ kpc = "connecting"
    /\ kpc' = "consuming"
    /\ kcached' = TRUE
    /\ UNCHANGED <<kattempt, kdelay, delivered, kstreak>>
    /\ UNCHANGED outsideConsume

\* The iterator gives a message: attempt = 0 and the message is yielded.
Deliver ==
    /\ kpc = "consuming"
    /\ delivered < MaxDeliveries
    /\ delivered' = delivered + 1
    /\ kattempt' = 0
    /\ kpc' = "yielded"
    /\ kstreak' = 0
    /\ UNCHANGED kdelay
    /\ UNCHANGED kcached
    /\ UNCHANGED outsideConsume

\* The consumer asks for the next message.
ConsumerNext ==
    /\ kpc = "yielded"
    /\ kpc' = "consuming"
    /\ UNCHANGED <<kattempt, kdelay, delivered, kstreak>>
    /\ UNCHANGED kcached
    /\ UNCHANGED outsideConsume

\* An Exception out of self.queue or of the iterator: it is logged and the
\* loop sleeps backoff_sleep(attempt). A getter that failed leaves its
\* property empty; nothing empties a property that holds a value.
ConsumeFails ==
    /\ kpc \in {"connecting", "consuming"}
    /\ kattempt < MaxFailures
    /\ kdelay' = BackoffDelay(kattempt)
    /\ kpc' = "backoff"
    /\ kstreak' = kstreak + 1
    /\ UNCHANGED <<kattempt, delivered>>
    /\ UNCHANGED kcached
    /\ UNCHANGED outsideConsume

\* The sleep is over: attempt += 1 and the loop connects again.
BackoffDone ==
    /\ kpc = "backoff"
    /\ kattempt' = kattempt + 1
    /\ kpc' = "connecting"
    /\ UNCHANGED <<kdelay, delivered, kstreak>>
    /\ UNCHANGED kcached
    /\ UNCHANGED outsideConsume

\* The iterator ends with no exception: the else of the try breaks out of the
\* while and the generator returns.
IterEnds ==
    /\ kpc = "consuming"
    /\ kpc' = "ended"
    /\ UNCHANGED <<kattempt, kdelay, delivered, kstreak>>
    /\ UNCHANGED kcached
    /\ UNCHANGED outsideConsume

\* The consumer closes the generator it holds at the yield: GeneratorExit is
\* not an Exception and leaves the loop.
ConsumerStops ==
    /\ kpc = "yielded"
    /\ kpc' = "closed"
    /\ UNCHANGED <<kattempt, kdelay, delivered, kstreak>>
    /\ UNCHANGED kcached
    /\ UNCHANGED outsideConsume

\* The task iterating is cancelled at an await of the loop: CancelledError is
\* not an Exception and leaves the loop.
ConsumeCancelled ==
    /\ kpc \in {"connecting", "consuming", "backoff"}
    /\ kpc' = "cancelled"
    /\ UNCHANGED <<kattempt, kdelay, delivered, kstreak>>
    /\ UNCHANGED kcached
    /\ UNCHANGED outsideConsume

ConsumeNext ==
    \/ ConsumeStart
    \/ QueueReady
    \/ Deliver
    \/ ConsumerNext
    \/ ConsumeFails
    \/ BackoffDone
    \/ IterEnds
    \/ ConsumerStops
    \/ ConsumeCancelled

SpecConsume == Init /\ [][ConsumeNext]_vars

\* ----------------------------------------------- claims on RabbitMQTopic.run
\* C20: the generator never returns because the iterator of the queue ended:
\* its sequence ends only when its consumer closes it or is cancelled.
C20_NeverEndsOnSuccess == kpc # "ended"

\* C27: after a failure of the consume loop the cached channel and queue are
\* discarded: during the backoff the properties hold nothing, so that the
\* next await of self.queue runs the getters again.
C27_DiscardedAfterFailure == kpc = "backoff" => ~kcached

\* The schedule as the claim states it: entry min(k, last) of 0, 1, 5, 15, 30.
C21_Entry(k) ==
    CASE k = 0 -> 0
      [] k = 1 -> 1
      [] k = 2 -> 5
      [] k = 3 -> 15
      [] OTHER -> 30

\* C21: the delay slept after the k-th failure in a row (k from 0) is entry
\* min(k, last) of the schedule; the counter is the number of failures since
\* the last yielded message, and is zero when a message has just been yielded.
C21_BackoffSchedule ==
    /\ kpc = "backoff" => kdelay = C21_Entry(kstreak - 1)
    /\ kpc = "backoff" => kattempt = kstreak - 1
    /\ kpc \in {"connecting", "consuming"} => kattempt = kstreak
    /\ kpc = "yielded" => kattempt = 0 /\ kstreak = 0

\* The sixth failure in a row, after a message was yielded, sleeps the last
\* entry.
C21_Witness ==
    /\ kpc = "backoff"
    /\ delivered > 0
    /\ kstreak = 6
    /\ kdelay = 30

Next ==
    \/ GroupNext \/ ManagerNext \/ LockNext \/ ThrottleNext \/ MemoNext
    \/ BrokerNext \/ CloseNext \/ ConsumeNext
Spec == Init /\ [][Next]_vars
====
